---- MODULE Spec2Model ----
(***************************************************************************)
(* Model of the idea-synthesis pipeline of src/src/synthesis/              *)
(* idea_generator.py (context builder, LLM gateway, response parsing,      *)
(* rescue, refinement, normalisation) and of the "Generate ideas" handler  *)
(* of src/app.py, over one run and over several runs of the page, and of  *)
(* ingest() with the connectors of src/src/connectors/.                    *)
(*                                                                         *)
(* Texts exchanged with the model endpoint are sequences of lexical        *)
(* tokens (punctuation, JSON string literals, number literals, bare prose  *)
(* words, code fences, whitespace); json.loads, str.find, str.rfind,       *)
(* str.strip and the fence regular expression are computed on them.        *)
(* Python values are tagged records.                                       *)
(***************************************************************************)
EXTENDS Integers, Sequences, FiniteSets, TLC

(***************************************************************************)
(* Python / JSON values                                                    *)
(***************************************************************************)
PyNone == [t |-> "None"]
PyStr(s) == [t |-> "str", s |-> s]
PyNum(s) == [t |-> "num", s |-> s]
PyList(items) == [t |-> "list", items |-> items]
PyDict(kv) == [t |-> "dict", kv |-> kv]
EmptyList == PyList(<<>>)
EmptyDict == PyDict(<<>>)

IsList(v) == v.t = "list"
IsDict(v) == v.t = "dict"

\* bool(v): None, "", 0, [] and {} are falsy
Truthy(v) ==
    CASE v.t = "None" -> FALSE
      [] v.t = "str" -> v.s # ""
      [] v.t = "num" -> v.s # "0"
      [] v.t = "list" -> v.items # <<>>
      [] v.t = "dict" -> v.kv # <<>>

\* a mutant of PyOr: a truthy value is wrapped into a list
PyOrWrapped(a, b) == IF Truthy(a) THEN PyList(<<a>>) ELSE b

\* a or b
PyOr(a, b) == IF Truthy(a) THEN a ELSE b

\* d[k] = v on an insertion-ordered dict: an existing key keeps its place
DictSet(kv, k, v) ==
    IF \E i \in 1..Len(kv) : kv[i][1] = k
    THEN [i \in 1..Len(kv) |-> IF kv[i][1] = k THEN <<k, v>> ELSE kv[i]]
    ELSE Append(kv, <<k, v>>)

HasKey(d, k) == \E i \in 1..Len(d.kv) : d.kv[i][1] = k

\* d.get(k, default)
DictGet(d, k, default) ==
    IF HasKey(d, k)
    THEN d.kv[CHOOSE i \in 1..Len(d.kv) : d.kv[i][1] = k][2]
    ELSE default

(***************************************************************************)
(* Tokens of a text                                                        *)
(***************************************************************************)
StrLits == {"ideas", "recommendations", "items", "foo", "title", "metric_tag",
            "A", "B", "x", "DALY", " WALY ", "cases prevented"}
NumLits == {"0", "5"}
Words == {"Sure", "thanks"}
\* "FENCE" is a bare run of three backquotes, "FENCE NL" one followed by a newline,
\* "FENCE json NL" one followed by json and a newline
FenceOpeners == {"FENCE json NL", "FENCE NL"}
FenceTokens == FenceOpeners \cup {"FENCE"}
Whitespace == {" "}

RECURSIVE LStrip(_)
LStrip(s) == IF s # <<>> /\ Head(s) \in Whitespace THEN LStrip(Tail(s)) ELSE s

RECURSIVE RStrip(_)
RStrip(s) ==
    IF s # <<>> /\ s[Len(s)] \in Whitespace THEN RStrip(SubSeq(s, 1, Len(s) - 1)) ELSE s

\* str.strip()
Strip(s) == RStrip(LStrip(s))

\* str.find(tok) / str.rfind(tok): 0 stands for the -1 of Python
Find(s, tok) ==
    IF \E i \in 1..Len(s) : s[i] = tok
    THEN CHOOSE i \in 1..Len(s) : s[i] = tok /\ \A j \in 1..(i - 1) : s[j] # tok
    ELSE 0

RFind(s, tok) ==
    IF \E i \in 1..Len(s) : s[i] = tok
    THEN CHOOSE i \in 1..Len(s) : s[i] = tok /\ \A j \in (i + 1)..Len(s) : s[j] # tok
    ELSE 0

(***************************************************************************)
(* json.loads                                                              *)
(***************************************************************************)
ParseFail == [ok |-> FALSE, val |-> PyNone, next |-> 0]
ParseOk(v, n) == [ok |-> TRUE, val |-> v, next |-> n]

RECURSIVE ParseValue(_, _)
RECURSIVE ParseElems(_, _, _)
RECURSIVE ParseMembers(_, _, _)

ParseValue(toks, i) ==
    IF i > Len(toks) THEN ParseFail
    ELSE LET tk == toks[i] IN
         CASE tk \in StrLits -> ParseOk(PyStr(tk), i + 1)
           [] tk \in NumLits -> ParseOk(PyNum(tk), i + 1)
           [] tk = "null" -> ParseOk(PyNone, i + 1)
           [] tk = "[" ->
                IF i + 1 <= Len(toks) /\ toks[i + 1] = "]"
                THEN ParseOk(EmptyList, i + 2)
                ELSE ParseElems(toks, i + 1, <<>>)
           [] tk = "{" ->
                IF i + 1 <= Len(toks) /\ toks[i + 1] = "}"
                THEN ParseOk(EmptyDict, i + 2)
                ELSE ParseMembers(toks, i + 1, <<>>)
           [] OTHER -> ParseFail

ParseElems(toks, i, acc) ==
    LET r == ParseValue(toks, i) IN
    IF ~r.ok \/ r.next > Len(toks) THEN ParseFail
    ELSE CASE toks[r.next] = "," -> ParseElems(toks, r.next + 1, Append(acc, r.val))
           [] toks[r.next] = "]" -> ParseOk(PyList(Append(acc, r.val)), r.next + 1)
           [] OTHER -> ParseFail

ParseMembers(toks, i, acc) ==
    IF i + 2 > Len(toks) \/ toks[i] \notin StrLits \/ toks[i + 1] # ":" THEN ParseFail
    ELSE LET r == ParseValue(toks, i + 2) IN
         IF ~r.ok \/ r.next > Len(toks) THEN ParseFail
         ELSE CASE toks[r.next] = "," ->
                     ParseMembers(toks, r.next + 1, DictSet(acc, toks[i], r.val))
                [] toks[r.next] = "}" ->
                     ParseOk(PyDict(DictSet(acc, toks[i], r.val)), r.next + 1)
                [] OTHER -> ParseFail

\* json.loads(text): [ok |-> FALSE] stands for the ValueError it raises
JsonLoads(text) ==
    LET toks == SelectSeq(text, LAMBDA tk : tk \notin Whitespace)
        r == ParseValue(toks, 1)
    IN IF r.ok /\ r.next = Len(toks) + 1
       THEN [ok |-> TRUE, val |-> r.val]
       ELSE [ok |-> FALSE, val |-> PyNone]

(***************************************************************************)
(* Fence stripping: clean = raw.strip(); if it starts with a fence and the *)
(* pattern FENCE (json)? NL (.*?) FENCE is found, clean = group(1).strip() *)
(***************************************************************************)
FenceMatch(clean) ==
    IF \E i \in 1..Len(clean) :
          clean[i] \in FenceOpeners /\ \E j \in (i + 1)..Len(clean) : clean[j] \in FenceTokens
    THEN LET i == CHOOSE a \in 1..Len(clean) :
                     /\ clean[a] \in FenceOpeners
                     /\ \E j \in (a + 1)..Len(clean) : clean[j] \in FenceTokens
                     /\ \A b \in 1..(a - 1) :
                          ~(clean[b] \in FenceOpeners
                            /\ \E j \in (b + 1)..Len(clean) : clean[j] \in FenceTokens)
             j == CHOOSE c \in (i + 1)..Len(clean) :
                     clean[c] \in FenceTokens /\ \A e \in (i + 1)..(c - 1) : clean[e] \notin FenceTokens
         IN [found |-> TRUE, group |-> SubSeq(clean, i + 1, j - 1)]
    ELSE [found |-> FALSE, group |-> <<>>]

StripFence(raw) ==
    LET clean == Strip(raw) IN
    IF clean # <<>> /\ clean[1] \in FenceTokens /\ FenceMatch(clean).found
    THEN Strip(FenceMatch(clean).group)
    ELSE clean

(***************************************************************************)
(* Draft parsing, synthesize_ideas lines 209-255                           *)
(***************************************************************************)
\* the substring between the first open and the last close, parsed; None when absent or invalid
Extract(clean, open, close) ==
    LET start == Find(clean, open)
        end == RFind(clean, close)
    IN IF start # 0 /\ end # 0 /\ end > start
       THEN LET r == JsonLoads(SubSeq(clean, start, end)) IN IF r.ok THEN r.val ELSE PyNone
       ELSE PyNone

\* obj of lines 217-237
DraftObj(raw) ==
    LET clean == StripFence(raw)
        direct == JsonLoads(clean)
        arr == Extract(clean, "[", "]")
    IN IF direct.ok THEN direct.val
       ELSE IF arr # PyNone THEN arr
       ELSE Extract(clean, "{", "}")

AltKeys == <<"philanthropic_ideas", "initiatives", "recommendations", "results", "items">>

\* lines 243-247: the first alternate key holding a list ends the loop
AltKeyList(obj, current) ==
    IF \E i \in 1..Len(AltKeys) : IsList(DictGet(obj, AltKeys[i], PyNone))
    THEN LET i == CHOOSE a \in 1..Len(AltKeys) :
                     /\ IsList(DictGet(obj, AltKeys[a], PyNone))
                     /\ \A b \in 1..(a - 1) : ~IsList(DictGet(obj, AltKeys[b], PyNone))
         IN PyOr(DictGet(obj, AltKeys[i], EmptyList), EmptyList)
    ELSE current

\* a mutant of LastResortOk: any list will do
LastResortAnyList(v) == IsList(v)

\* lines 249-253: the first top-level value that is an empty list or a list starting with a dict
LastResortOk(v) == IsList(v) /\ (Len(v.items) = 0 \/ IsDict(v.items[1]))

LastResortList(obj, current) ==
    IF \E i \in 1..Len(obj.kv) : LastResortOk(obj.kv[i][2])
    THEN obj.kv[CHOOSE a \in 1..Len(obj.kv) :
                   /\ LastResortOk(obj.kv[a][2])
                   /\ \A b \in 1..(a - 1) : ~LastResortOk(obj.kv[b][2])][2]
    ELSE current

\* ideas_list of lines 239-255
IdeasOfObj(obj) ==
    IF IsDict(obj)
    THEN LET l1 == PyOr(DictGet(obj, "ideas", EmptyList), EmptyList)
             l2 == IF ~Truthy(l1) THEN AltKeyList(obj, l1) ELSE l1
         IN IF ~Truthy(l2) THEN LastResortList(obj, l2) ELSE l2
    ELSE IF IsList(obj) THEN obj
    ELSE EmptyList

ParseDraft(raw) == IdeasOfObj(DraftObj(raw))

(***************************************************************************)
(* Rescue parsing, synthesize_ideas lines 270-283                          *)
(***************************************************************************)
\* ideas_list after lines 270-282; current is the (empty) draft list
ParseRescue(raw2, current) ==
    LET r == JsonLoads(StripFence(raw2)) IN
    IF ~r.ok THEN EmptyList
    ELSE IF IsList(r.val) THEN r.val
    ELSE IF IsDict(r.val) /\ HasKey(r.val, "ideas")
         THEN PyOr(DictGet(r.val, "ideas", EmptyList), EmptyList)
    ELSE current

\* line 283: raw = raw if ideas_list else raw2
KeepRaw(raw, raw2, ideas_list) == IF Truthy(ideas_list) THEN raw ELSE raw2

(***************************************************************************)
(* Slicing and refinement parsing                                          *)
(***************************************************************************)
Min(a, b) == IF a <= b THEN a ELSE b

\* a mutant of Slice: nothing is cut off
SliceUncut(v, n) ==
    IF v.t \in {"list", "str"} THEN [ok |-> TRUE, val |-> v] ELSE [ok |-> FALSE, val |-> PyNone]

\* v[:n] for n >= 0: a list or a str is sliced, anything else raises TypeError.
\* The str values of the texts have one character, so s[:n] is "" for n = 0 and s otherwise.
Slice(v, n) ==
    CASE v.t = "list" -> [ok |-> TRUE, val |-> PyList(SubSeq(v.items, 1, Min(n, Len(v.items))))]
      [] v.t = "str" -> [ok |-> TRUE, val |-> IF n = 0 THEN PyStr("") ELSE v]
      [] OTHER -> [ok |-> FALSE, val |-> PyNone]

\* _refine_ideas_with_rubric lines 371-385, given the text the gateway returned
ParseRefined(raw, draft_ideas) ==
    LET r == JsonLoads(StripFence(raw)) IN
    IF ~r.ok THEN draft_ideas
    ELSE IF IsDict(r.val) /\ IsList(DictGet(r.val, "ideas", PyNone))
         THEN DictGet(r.val, "ideas", EmptyList)
    ELSE IF IsList(r.val) THEN r.val
    ELSE draft_ideas

(***************************************************************************)
(* Topics: a str is a sequence of characters, so that "k in topics" is     *)
(* the substring test of the source                                        *)
(***************************************************************************)
UpperToLower ==
    ("A" :> "a") @@ ("B" :> "b") @@ ("C" :> "c") @@ ("D" :> "d") @@ ("E" :> "e") @@ ("F" :> "f") @@ ("G" :> "g") @@ ("H" :> "h") @@ ("I" :> "i") @@ ("J" :> "j") @@ ("K" :> "k") @@ ("L" :> "l") @@ ("M" :> "m") @@ ("N" :> "n") @@ ("O" :> "o") @@ ("P" :> "p") @@ ("Q" :> "q") @@ ("R" :> "r") @@ ("S" :> "s") @@ ("T" :> "t") @@ ("U" :> "u") @@ ("V" :> "v") @@ ("W" :> "w") @@ ("X" :> "x") @@ ("Y" :> "y") @@ ("Z" :> "z")

\* str.lower()
Lower(str) == [i \in 1..Len(str) |-> IF str[i] \in DOMAIN UpperToLower THEN UpperToLower[str[i]] ELSE str[i]]

\* needle in hay
Contains(hay, needle) ==
    \E i \in 0..(Len(hay) - Len(needle)) : SubSeq(hay, i + 1, i + Len(needle)) = needle

AnimalKeywords == {
    <<"a", "n", "i", "m", "a", "l">>,
    <<"w", "e", "l", "f", "a", "r", "e">>,
    <<"b", "r", "o", "i", "l", "e", "r">>,
    <<"f", "i", "s", "h">>,
    <<"s", "h", "r", "i", "m", "p">>,
    <<"l", "a", "y", "e", "r">>,
    <<"p", "o", "u", "l", "t", "r", "y">>,
    <<"s", "w", "i", "n", "e">>,
    <<"a", "q", "u", "a", "c", "u", "l", "t", "u", "r", "e">> }

HealthKeywords == {
    <<"h", "e", "a", "l", "t", "h">>,
    <<"m", "a", "l", "a", "r", "i", "a">>,
    <<"t", "b">>,
    <<"h", "i", "v">>,
    <<"s", "t", "a", "t", "i", "n">>,
    <<"p", "o", "l", "y", "p", "i", "l", "l">>,
    <<"o", "x", "y", "g", "e", "n">>,
    <<"d", "i", "a", "r", "r", "h", "e", "a">>,
    <<"o", "r", "s">>,
    <<"z", "i", "n", "c">>,
    <<"l", "e", "a", "d">>,
    <<"a", "i", "r", " ", "p", "o", "l", "l", "u", "t", "i", "o", "n">>,
    <<"r", "e", "s", "p", "i", "r", "a", "t", "o", "r">>,
    <<"u", "v">>,
    <<"s", "m", "c">>,
    <<"v", "a", "c", "c", "i", "n">>,
    <<"t", "p", "t">>,
    <<"t", "h", "e", "r", "a", "p", "y">>,
    <<"c", "h", "o", "l", "e", "r", "a">>,
    <<"w", "a", "s", "t", "e", "w", "a", "t", "e", "r">>,
    <<"g", "b", "s">>,
    <<"e", "-", "c", "o", "o", "k", "i", "n", "g">>,
    <<"p", "m", "2", ".", "5">> }

\* lines 296-301
IsAnimal(topics) == \E k \in AnimalKeywords : Contains(Lower(topics), k)
IsGlobalHealth(topics) == \E k \in HealthKeywords : Contains(Lower(topics), k)

(***************************************************************************)
(* Normalisation, synthesize_ideas lines 294-324                           *)
(***************************************************************************)
allowed_metrics == {"DALY", "WALY", "WELBY", "log income", "CO2"}

\* str.strip() on the str values of the texts: " WALY " is the one with blanks around it
StrStrip(s) == IF s = " WALY " THEN "WALY" ELSE s

\* str(v).strip() of line 304
StrOf(v) ==
    CASE v.t = "str" -> StrStrip(v.s)
      [] v.t = "num" -> v.s
      [] v.t = "None" -> "None"
      [] v.t = "list" -> "repr(list)"
      [] v.t = "dict" -> "repr(dict)"

\* a mutant of MetricTag: no coercion at all
MetricTagAsProduced(idea, topics) == StrOf(DictGet(idea, "metric_tag", PyStr("")))

\* a mutant of MetricTag: the animal keywords are looked at before the health keywords
MetricTagAnimalFirst(idea, topics) ==
    LET mt == StrOf(DictGet(idea, "metric_tag", PyStr(""))) IN
    IF mt \notin allowed_metrics
    THEN IF IsAnimal(topics) THEN "WALY" ELSE IF IsGlobalHealth(topics) THEN "DALY" ELSE mt
    ELSE mt

\* lines 304-306
MetricTag(idea, topics) ==
    LET mt == StrOf(DictGet(idea, "metric_tag", PyStr(""))) IN
    IF mt \notin allowed_metrics
    THEN IF IsGlobalHealth(topics) THEN "DALY" ELSE IF IsAnimal(topics) THEN "WALY" ELSE mt
    ELSE mt

\* lines 307-323: the record appended to normed
NormalizeIdea(idea, topics, show_reasoning) ==
    PyDict(<< <<"title", DictGet(idea, "title", PyStr("Idea"))>>,
              <<"description", DictGet(idea, "description", PyStr(""))>>,
              <<"instrument", DictGet(idea, "instrument", PyStr(""))>>,
              <<"metric_tag", PyStr(MetricTag(idea, topics))>>,
              <<"total_cost", DictGet(idea, "total_cost", PyStr(""))>>,
              <<"ce_vs_benchmark", DictGet(idea, "ce_vs_benchmark", PyStr(""))>>,
              <<"candidates", PyOr(DictGet(idea, "candidates", EmptyList), EmptyList)>>,
              <<"sources", PyOr(DictGet(idea, "sources", EmptyList), EmptyList)>>,
              <<"botec", DictGet(idea, "botec", EmptyDict)>>,
              <<"reasoning", IF show_reasoning THEN DictGet(idea, "reasoning", EmptyDict) ELSE EmptyDict>>,
              <<"doers", PyOr(DictGet(idea, "doers", EmptyList), EmptyList)>>,
              <<"doer_archetype", DictGet(idea, "doer_archetype", PyStr(""))>>,
              <<"debate", DictGet(idea, "debate", EmptyDict)>> >>)

\* the elements a for loop over v visits: the items of a list, the characters of a str
IterItems(v) == IF v.t = "list" THEN v.items ELSE IF v.s = "" THEN <<>> ELSE <<PyStr(v.s)>>

\* lines 303-323: the loop over refined[:num_ideas]; idea.get raises AttributeError
\* on an element that is not a dict
NormalizeAll(refined, num_ideas, topics, show_reasoning) ==
    LET cut == IterItems(Slice(refined, num_ideas).val) IN
    IF \E i \in 1..Len(cut) : ~IsDict(cut[i])
    THEN [ok |-> FALSE, val |-> EmptyList]
    ELSE [ok |-> TRUE,
          val |-> PyList([i \in 1..Len(cut) |-> NormalizeIdea(cut[i], topics, show_reasoning)])]

(***************************************************************************)
(* Context builder, _build_context lines 42-61.  A document carries its    *)
(* source and the lengths of its title, url and summary; a rendered block  *)
(* is the position of its document in the input and its length.            *)
(***************************************************************************)
PRIORITY_SOURCES ==
    {"Open Philanthropy", "Animal Charity Evaluators", "Wild Animal Initiative", "FAOSTAT", "Fishcount"}

\* str.strip() on the sources of the documents: " FAOSTAT " is the one with blanks around it
SourceStrip(s) == IF s = " FAOSTAT " THEN "FAOSTAT" ELSE s

\* lines 44-46
Priority(doc) == IF SourceStrip(doc.source) \in PRIORITY_SOURCES THEN 0 ELSE 1

\* a mutant of Ordered: the other documents first
OrderedOthersFirst(documents) ==
    SelectSeq([i \in 1..Len(documents) |-> i], LAMBDA i : Priority(documents[i]) = 1)
    \o SelectSeq([i \in 1..Len(documents) |-> i], LAMBDA i : Priority(documents[i]) = 0)

\* line 48: sorted(documents, key=_priority), a stable sort on a key in {0, 1};
\* the result lists positions of the input
Ordered(documents) ==
    SelectSeq([i \in 1..Len(documents) |-> i], LAMBDA i : Priority(documents[i]) = 0)
    \o SelectSeq([i \in 1..Len(documents) |-> i], LAMBDA i : Priority(documents[i]) = 1)

MaxContextDocs == 50
SummaryCap == 1000
DefaultMaxChars == 12000
\* the fixed characters of the block "- {title}\n  {summary}\n  Source: {url}\n"
BlockOverhead == 17

\* lines 53-56: len(s)
BlockLen(doc) == BlockOverhead + doc.title + Min(doc.summary, SummaryCap) + doc.url

\* a mutant of Accumulate: the block that crosses the cap is still added
RECURSIVE AccumulateLate(_, _, _, _, _, _)
AccumulateLate(documents, order, i, used, parts, max_chars) ==
    IF i > Len(order) THEN parts
    ELSE LET n == BlockLen(documents[order[i]]) IN
         IF used > max_chars THEN parts
         ELSE AccumulateLate(documents, order, i + 1, used + n,
                             Append(parts, [doc |-> order[i], len |-> n]), max_chars)

\* lines 50-60: the loop over ordered[:50]
RECURSIVE Accumulate(_, _, _, _, _, _)
Accumulate(documents, order, i, used, parts, max_chars) ==
    IF i > Len(order) THEN parts
    ELSE LET n == BlockLen(documents[order[i]]) IN
         IF used + n > max_chars THEN parts
         ELSE Accumulate(documents, order, i + 1, used + n,
                         Append(parts, [doc |-> order[i], len |-> n]), max_chars)

RECURSIVE SumLen(_)
SumLen(parts) == IF parts = <<>> THEN 0 ELSE Head(parts).len + SumLen(Tail(parts))

\* line 61: len("\n".join(parts))
JoinLen(parts) == IF parts = <<>> THEN 0 ELSE SumLen(parts) + (Len(parts) - 1)

\* _build_context: the blocks of the returned string and its length
BuildContext(documents, max_chars) ==
    LET ordered == Ordered(documents)
        first == SubSeq(ordered, 1, Min(MaxContextDocs, Len(ordered)))
        parts == Accumulate(documents, first, 1, 0, <<>>, max_chars)
    IN [parts |-> parts, len |-> JoinLen(parts)]

(***************************************************************************)
(* LLM gateway, _call_llm lines 64-110                                     *)
(***************************************************************************)
\* os.getenv("OPENAI_MODEL"): "unset" stands for an absent variable
EnvModels == {"unset", "", "o3", "my-model"}

FallbackChain ==
    <<"gpt-5", "gpt-5o", "o3", "gpt-4.1", "gpt-4.1-mini", "gpt-4o",
      "gpt-4o-mini-2024-07-18", "gpt-3.5-turbo-0125">>

\* lines 73-83: the model argument of _call_llm is not read
ModelsToTry(env, model) == <<IF env = "unset" THEN "gpt-5" ELSE env>> \o FallbackChain

\* line 202 and line 369
DefaultModel(env, deep_research) ==
    IF env \notin {"unset", ""} THEN env ELSE IF deep_research THEN "o3" ELSE "gpt-4o"

FailureKinds == {"network", "auth", "model_not_found", "rate_limit"}
\* a response whose content is "", whose content is None, or that has no choices
EmptyKinds == {"empty_content", "none_content", "no_choices"}

Brackets == <<"[", "]">>

\* lines 104-105: content or "[]"
ContentOf(kind, content) == IF kind \in EmptyKinds \/ content = <<>> THEN Brackets ELSE content

(***************************************************************************)
(* The texts a model returns                                               *)
(***************************************************************************)
IdeaA == <<"{", "title", ":", "A", ",", "metric_tag", ":", "DALY", "}">>
IdeaB == <<"{", "title", ":", "B", ",", "metric_tag", ":", "cases prevented", "}">>
IdeaW == <<"{", "metric_tag", ":", " WALY ", "}">>

T_Prose == <<"Sure", " ", "thanks">>
T_Blank == <<" ">>
T_Ideas == <<"{", "ideas", ":", "[">> \o IdeaA \o <<",">> \o IdeaB \o <<",">> \o IdeaW \o <<"]", "}">>
T_IdeasEmpty == <<"{", "ideas", ":", "[", "]", "}">>
T_FencedReco ==
    <<"FENCE json NL", "{", "recommendations", ":", "[">> \o IdeaB \o <<"]", "}", " ", "FENCE">>
T_ProseObject == <<"Sure", " ", "{", "ideas", ":", "[">> \o IdeaA \o <<"]", "}", " ", "thanks">>
T_Truncated == <<"{", "ideas", ":", "[">> \o IdeaA \o <<",", "{", "title">>
T_IdeasNum == <<"{", "ideas", ":", "5", "}">>
T_IdeasStr == <<"{", "ideas", ":", "x", "}">>
T_WrongKey == <<"{", "foo", ":", "x", "}">>
T_Items == <<"{", "ideas", ":", "[", "]", ",", "foo", ":", "[">> \o IdeaW \o <<"]", ",",
             "items", ":", "[">> \o IdeaA \o <<",">> \o IdeaB \o <<"]", "}">>
T_Array == <<"[">> \o IdeaB \o <<",">> \o IdeaA \o <<"]">>
T_ArrayNum == <<"[", "5", "]">>
T_OpenFence == <<"FENCE NL", "[">> \o IdeaA \o <<"]">>
T_LastResort == <<"{", "foo", ":", "[", "5", "]", ",", "x", ":", "[">> \o IdeaA \o <<"]", "}">>
T_AltNotList == <<"{", "recommendations", ":", "x", ",", "items", ":", "[">> \o IdeaB \o <<"]", "}">>
T_AltEmpty == <<"{", "x", ":", "[">> \o IdeaA \o <<"]", ",", "items", ":", "[", "]", "}">>

\* what the draft call may return
DraftTexts ==
    {T_Prose, T_Blank, Brackets, T_Ideas, T_IdeasEmpty, T_FencedReco, T_ProseObject, T_Truncated,
     T_IdeasNum, T_IdeasStr, T_WrongKey, T_Items, T_Array, T_ArrayNum, T_OpenFence,
     T_LastResort, T_AltNotList, T_AltEmpty}
\* what the rescue call may return
RescueTexts == {T_Prose, T_Ideas, T_FencedReco, T_ProseObject, T_IdeasStr, T_Array, T_ArrayNum}
\* what the refinement call may return
RefineTexts == {T_Prose, T_Ideas, T_IdeasEmpty, T_FencedReco, T_WrongKey, T_Array, T_ArrayNum}

(***************************************************************************)
(* Inputs                                                                  *)
(***************************************************************************)
MaxNumIdeas == 2

TopicsSet ==
    { <<"b", "r", "o", "i", "l", "e", "r", " ", "w", "e", "l", "f", "a", "r", "e">>,
      <<"M", "a", "l", "a", "r", "i", "a">>,
      <<"f", "i", "s", "h", " ", "h", "e", "a", "l", "t", "h">>,
      <<"c", "l", "i", "m", "a", "t", "e">> }

DocOP == [source |-> "Open Philanthropy", title |-> 5, url |-> 10, summary |-> 20]
DocArxiv == [source |-> "arXiv", title |-> 3, url |-> 10, summary |-> 1500]
DocFao == [source |-> " FAOSTAT ", title |-> 0, url |-> 4, summary |-> 0]
DocCrossref == [source |-> "Crossref", title |-> 1, url |-> 0, summary |-> 0]

\* enough documents of 1030 characters each that the context cannot hold them all
ManyDocs == 13

\* the document sequences handed to synthesize_ideas
RunDocuments == {<<>>, <<DocArxiv, DocOP>>, [i \in 1..ManyDocs |-> DocArxiv]}

(***************************************************************************)
(* State                                                                   *)
(***************************************************************************)
VARIABLES
    cred,            \* OPENAI_API_KEY is set in the environment
    env_model,       \* OPENAI_MODEL in the environment
    topics, num_ideas, show_reasoning, documents,   \* arguments of synthesize_ideas
    driver,          \* who called: the Generate ideas handler ("ui") or another caller ("direct")
    pc,              \* position of the run
    context,         \* _build_context(documents)
    raw, raw2, ideas_list, refined,                 \* locals of synthesize_ideas
    result, err,     \* the returned dict, the exception raised
    calls,           \* the gateway calls of the run, in order: the draft ideas given to the
                     \* refinement, how the gateway ended, the text it returned
    session, ui_msg, \* st.session_state and the message the handler shows
    ctx,             \* a call of _build_context on its own
    gw,              \* a call of _call_llm on its own
    nz,              \* the normalisation of one idea record on its own
    ing              \* a call of ingest() of app.py on its own

vars == <<cred, env_model, topics, num_ideas, show_reasoning, documents, driver, pc, context,
          raw, raw2, ideas_list, refined, result, err, calls, session, ui_msg, ctx, gw, nz, ing>>

runVars == <<cred, topics, num_ideas, show_reasoning, documents, driver, pc, context,
             raw, raw2, ideas_list, refined, result, err, calls, session, ui_msg>>

NoContext == [parts |-> <<>>, len |-> 0]
NoResult == [ideas |-> EmptyList, raw |-> <<>>, docs_count |-> 0]
\* app.py lines 27-32
EmptySession == [ideas |-> EmptyList, debug_raw |-> <<>>, debug_docs_count |-> 0]

CtxIdle == [pc |-> "idle", documents |-> <<>>, max_chars |-> 0, out |-> NoContext]
GwIdle == [pc |-> "idle", deep_research |-> FALSE, model |-> "", i |-> 0, mode |-> "json",
           attempts |-> <<>>, ret |-> <<>>]
NzIdle == [pc |-> "idle", idea |-> EmptyDict, topics |-> <<>>, show_reasoning |-> FALSE,
           once |-> EmptyDict, twice |-> EmptyDict]
IngIdle == [pc |-> "idle", keywords |-> <<>>, i |-> 0, docs |-> <<>>, log |-> <<>>]

RunInit ==
    /\ cred \in BOOLEAN
    /\ topics \in TopicsSet
    /\ num_ideas \in 0..MaxNumIdeas
    /\ show_reasoning = FALSE
    /\ documents = <<>>
    /\ driver = "none"
    /\ pc = "idle"
    /\ context = NoContext
    /\ raw = <<>>
    /\ raw2 = <<>>
    /\ ideas_list = EmptyList
    /\ refined = EmptyList
    /\ result = NoResult
    /\ err = "none"
    /\ calls = <<>>
    /\ session = EmptySession
    /\ ui_msg = "none"

RunIdle ==
    /\ cred = TRUE
    /\ topics = <<>>
    /\ num_ideas = 0
    /\ show_reasoning = FALSE
    /\ documents = <<>>
    /\ driver = "none"
    /\ pc = "off"
    /\ context = NoContext
    /\ raw = <<>>
    /\ raw2 = <<>>
    /\ ideas_list = EmptyList
    /\ refined = EmptyList
    /\ result = NoResult
    /\ err = "none"
    /\ calls = <<>>
    /\ session = EmptySession
    /\ ui_msg = "none"

Init == RunInit /\ env_model = "unset" /\ ctx = CtxIdle /\ gw = GwIdle /\ nz = NzIdle /\ ing = IngIdle

(***************************************************************************)
(* What one call of the gateway hands back to synthesize_ideas             *)
(***************************************************************************)
GatewayOutcomes(texts) ==
    {[kind |-> "exhausted", content |-> <<>>]}
    \cup {[kind |-> k, content |-> <<>>] : k \in EmptyKinds}
    \cup {[kind |-> "content", content |-> t] : t \in texts}

\* a mutant of GatewayReturn: exhaustion hands back an empty text
GatewayReturnRaw(o) == o.content

\* line 105 for a candidate that answered, line 110 when every candidate failed
GatewayReturn(o) == IF o.kind = "exhausted" THEN Brackets ELSE ContentOf(o.kind, o.content)

OutcomeClass(o) == IF o.kind \in EmptyKinds THEN "empty" ELSE o.kind

(***************************************************************************)
(* The Generate ideas handler, app.py lines 119-148, and a direct caller   *)
(***************************************************************************)
\* app.py lines 121-134: the button, the credential check, ingest()
GenerateClick ==
    /\ pc = "idle"
    /\ driver' = "ui"
    /\ IF ~cred
       THEN /\ ui_msg' = "Missing OPENAI_API_KEY"
            /\ pc' = "finished"
            /\ UNCHANGED <<documents, show_reasoning>>
       ELSE /\ documents' \in RunDocuments
            /\ show_reasoning' = TRUE
            /\ pc' = "called"
            /\ UNCHANGED ui_msg
    /\ UNCHANGED <<cred, env_model, topics, num_ideas, context, raw, raw2, ideas_list, refined,
                   result, err, calls, session, ctx, gw, nz, ing>>

\* tools_run_eval.py lines 29-30: synthesize_ideas called without the handler
DirectCall ==
    /\ pc = "idle"
    /\ driver' = "direct"
    /\ documents' \in RunDocuments
    /\ show_reasoning' \in BOOLEAN
    /\ pc' = "called"
    /\ UNCHANGED <<cred, env_model, topics, num_ideas, context, raw, raw2, ideas_list, refined,
                   result, err, calls, session, ui_msg, ctx, gw, nz, ing>>

(***************************************************************************)
(* synthesize_ideas, lines 113-324                                         *)
(***************************************************************************)
\* a mutant of CredentialMissing: the credential is not checked
CredentialNotChecked(c) == FALSE

\* line 120: not os.getenv("OPENAI_API_KEY")
CredentialMissing(c) == ~c

\* lines 120-123: the precondition, then the context
SynthesizeEntry ==
    /\ pc = "called"
    /\ IF CredentialMissing(cred)
       THEN /\ pc' = "raised"
            /\ err' = "RuntimeError"
            /\ UNCHANGED context
       ELSE /\ context' = BuildContext(documents, DefaultMaxChars)
            /\ pc' = "drafting"
            /\ UNCHANGED err
    /\ UNCHANGED <<cred, env_model, topics, num_ideas, show_reasoning, documents, driver,
                   raw, raw2, ideas_list, refined, result, calls, session, ui_msg, ctx, gw, nz, ing>>

\* line 207: the first-pass generation
DraftCall ==
    /\ pc = "drafting"
    /\ \E o \in GatewayOutcomes(DraftTexts) :
          /\ raw' = GatewayReturn(o)
          /\ calls' = Append(calls, [stage |-> "draft", given |-> PyNone, outcome |-> OutcomeClass(o),
                                   ret |-> GatewayReturn(o)])
    /\ pc' = "parsing_draft"
    /\ UNCHANGED <<cred, env_model, topics, num_ideas, show_reasoning, documents, driver, context,
                   raw2, ideas_list, refined, result, err, session, ui_msg, ctx, gw, nz, ing>>

\* a mutant of NeedsRescue: the rescue is asked for whatever the draft gave
RescueAlways(ideas) == TRUE

\* line 258: not ideas_list
NeedsRescue(ideas) == ~Truthy(ideas)

\* lines 209-258
ParseDraftStep ==
    /\ pc = "parsing_draft"
    /\ ideas_list' = ParseDraft(raw)
    /\ pc' = IF NeedsRescue(ideas_list') THEN "rescuing" ELSE "refining"
    /\ UNCHANGED <<cred, env_model, topics, num_ideas, show_reasoning, documents, driver, context,
                   raw, raw2, refined, result, err, calls, session, ui_msg, ctx, gw, nz, ing>>

\* lines 259-283
RescueCall ==
    /\ pc = "rescuing"
    /\ \E o \in GatewayOutcomes(RescueTexts) :
          /\ raw2' = GatewayReturn(o)
          /\ calls' = Append(calls, [stage |-> "rescue", given |-> PyNone, outcome |-> OutcomeClass(o),
                                   ret |-> GatewayReturn(o)])
    /\ ideas_list' = ParseRescue(raw2', ideas_list)
    /\ raw' = KeepRaw(raw, raw2', ideas_list')
    /\ pc' = "refining"
    /\ UNCHANGED <<cred, env_model, topics, num_ideas, show_reasoning, documents, driver, context,
                   refined, result, err, session, ui_msg, ctx, gw, nz, ing>>

\* a mutant of FallBack: the refinement result is taken as it is
NoFallBack(r, ideas, n) == r

\* lines 288-292: refined = ideas_list[:num_ideas] when refined is empty and ideas_list is not
FallBack(r, ideas, n) == IF ~Truthy(r) /\ Truthy(ideas) THEN Slice(ideas, n).val ELSE r

\* line 286: ideas_list[:num_ideas] raises on a value that cannot be sliced
RefineRaise ==
    /\ pc = "refining"
    /\ ~Slice(ideas_list, num_ideas).ok
    /\ pc' = "raised"
    /\ err' = "TypeError"
    /\ UNCHANGED <<cred, env_model, topics, num_ideas, show_reasoning, documents, driver, context,
                   raw, raw2, ideas_list, refined, result, calls, session, ui_msg, ctx, gw, nz, ing>>

\* lines 286-292 with lines 330-331: no draft ideas, no gateway call
RefineSkip ==
    /\ pc = "refining"
    /\ Slice(ideas_list, num_ideas).ok
    /\ ~Truthy(Slice(ideas_list, num_ideas).val)
    /\ refined' = FallBack(EmptyList, ideas_list, num_ideas)
    /\ pc' = "normalizing"
    /\ UNCHANGED <<cred, env_model, topics, num_ideas, show_reasoning, documents, driver, context,
                   raw, raw2, ideas_list, result, err, calls, session, ui_msg, ctx, gw, nz, ing>>

\* lines 286-292 with lines 332-385: the refinement call and its parsing
RefineCall ==
    /\ pc = "refining"
    /\ Slice(ideas_list, num_ideas).ok
    /\ Truthy(Slice(ideas_list, num_ideas).val)
    /\ \E o \in GatewayOutcomes(RefineTexts) :
          /\ refined' = FallBack(ParseRefined(GatewayReturn(o), Slice(ideas_list, num_ideas).val),
                                 ideas_list, num_ideas)
          /\ calls' = Append(calls, [stage |-> "refine", given |-> Slice(ideas_list, num_ideas).val,
                                   outcome |-> OutcomeClass(o), ret |-> GatewayReturn(o)])
    /\ pc' = "normalizing"
    /\ UNCHANGED <<cred, env_model, topics, num_ideas, show_reasoning, documents, driver, context,
                   raw, raw2, ideas_list, result, err, session, ui_msg, ctx, gw, nz, ing>>

\* lines 294-324
NormalizeStep ==
    /\ pc = "normalizing"
    /\ LET r == NormalizeAll(refined, num_ideas, topics, show_reasoning) IN
       IF r.ok
       THEN /\ result' = [ideas |-> r.val, raw |-> raw, docs_count |-> Len(documents)]
            /\ pc' = "done"
            /\ UNCHANGED err
       ELSE /\ pc' = "raised"
            /\ err' = "AttributeError"
            /\ UNCHANGED result
    /\ UNCHANGED <<cred, env_model, topics, num_ideas, show_reasoning, documents, driver, context,
                   raw, raw2, ideas_list, refined, calls, session, ui_msg, ctx, gw, nz, ing>>

\* a mutant of SessionOnFailure: the stored result is left as it was
SessionKeptOnFailure(sess) == sess

\* app.py lines 144-147: the except branch resets the three session entries
SessionOnFailure(sess) == [sess EXCEPT !.ideas = EmptyList, !.debug_raw = <<>>, !.debug_docs_count = 0]

\* app.py lines 135-148: the handler stores the result, or clears the session on an exception
HandlerFinish ==
    /\ pc \in {"done", "raised"}
    /\ driver = "ui"
    /\ IF pc = "done"
       THEN /\ session' = [ideas |-> result.ideas, debug_raw |-> result.raw,
                           debug_docs_count |-> result.docs_count]
            /\ ui_msg' = "Generated"
       ELSE /\ session' = SessionOnFailure(session)
            /\ ui_msg' = "Generation failed"
    /\ pc' = "finished"
    /\ UNCHANGED <<cred, env_model, topics, num_ideas, show_reasoning, documents, driver, context,
                   raw, raw2, ideas_list, refined, result, err, calls, ctx, gw, nz, ing>>

Next ==
    \/ GenerateClick
    \/ DirectCall
    \/ SynthesizeEntry
    \/ DraftCall
    \/ ParseDraftStep
    \/ RescueCall
    \/ RefineRaise
    \/ RefineSkip
    \/ RefineCall
    \/ NormalizeStep
    \/ HandlerFinish

Spec == Init /\ [][Next]_vars

(***************************************************************************)
(* The page over several runs: the script of app.py is run again on every  *)
(* interaction and st.session_state is what it keeps from run to run       *)
(***************************************************************************)
SessionInit ==
    /\ cred = TRUE
    /\ topics \in {tp \in TopicsSet : ~IsGlobalHealth(tp) /\ ~IsAnimal(tp)}
    /\ num_ideas = 1
    /\ show_reasoning = FALSE
    /\ documents = <<>>
    /\ driver = "none"
    /\ pc = "idle"
    /\ context = NoContext
    /\ raw = <<>>
    /\ raw2 = <<>>
    /\ ideas_list = EmptyList
    /\ refined = EmptyList
    /\ result = NoResult
    /\ err = "none"
    /\ calls = <<>>
    /\ session = EmptySession
    /\ ui_msg = "none"
    /\ env_model = "unset"
    /\ ctx = CtxIdle
    /\ gw = GwIdle
    /\ nz = NzIdle
    /\ ing = IngIdle

\* app.py lines 27-32 and 121: the script starts again; the session entries exist and
\* are kept, everything local to the previous run is gone
Rerun ==
    /\ pc = "finished"
    /\ pc' = "idle"
    /\ driver' = "none"
    /\ documents' = <<>>
    /\ show_reasoning' = FALSE
    /\ context' = NoContext
    /\ raw' = <<>>
    /\ raw2' = <<>>
    /\ ideas_list' = EmptyList
    /\ refined' = EmptyList
    /\ result' = NoResult
    /\ err' = "none"
    /\ calls' = <<>>
    /\ ui_msg' = "none"
    /\ UNCHANGED <<cred, env_model, topics, num_ideas, session, ctx, gw, nz, ing>>

SessionNext ==
    \/ GenerateClick
    \/ SynthesizeEntry
    \/ DraftCall
    \/ ParseDraftStep
    \/ RescueCall
    \/ RefineRaise
    \/ RefineSkip
    \/ RefineCall
    \/ NormalizeStep
    \/ HandlerFinish
    \/ Rerun

SpecSession == SessionInit /\ [][SessionNext]_vars

(***************************************************************************)
(* _build_context called on its own, for every document sequence and cap   *)
(***************************************************************************)
MaxPrefixDocs == 2
FillerDocs == 49

DocKinds == {DocOP, DocArxiv, DocFao, DocCrossref}
\* a run of copies of one document, so that more than 50 documents are met
Fillers == {DocFao, DocCrossref}

CtxDocuments ==
    LET prefixes == UNION {[1..n -> DocKinds] : n \in 0..MaxPrefixDocs} IN
    prefixes \cup {p \o [i \in 1..FillerDocs |-> f] : p \in prefixes, f \in Fillers}

CtxMaxChars == {0, 20, 52, 73, 1100, DefaultMaxChars}

CtxInit ==
    /\ ctx \in {[pc |-> "ready", documents |-> d, max_chars |-> m, out |-> NoContext] :
                   d \in CtxDocuments, m \in CtxMaxChars}
    /\ RunIdle
    /\ env_model = "unset"
    /\ gw = GwIdle
    /\ nz = NzIdle
    /\ ing = IngIdle

CtxBuild ==
    /\ ctx.pc = "ready"
    /\ ctx' = [ctx EXCEPT !.pc = "built", !.out = BuildContext(ctx.documents, ctx.max_chars)]
    /\ UNCHANGED <<runVars, env_model, gw, nz, ing>>

CtxNext == CtxBuild

SpecContext == CtxInit /\ [][CtxNext]_vars

(***************************************************************************)
(* _call_llm called on its own: the loop over models_to_try, lines 84-110  *)
(***************************************************************************)
\* the non-empty contents a candidate may answer with
GwContents == {T_Prose, T_Ideas}

GwInit ==
    /\ env_model \in EnvModels
    /\ gw \in {[pc |-> "loop", deep_research |-> d, model |-> DefaultModel(env_model, d), i |-> 1,
                mode |-> "json", attempts |-> <<>>, ret |-> <<>>] : d \in BOOLEAN}
    /\ RunIdle
    /\ ctx = CtxIdle
    /\ nz = NzIdle
    /\ ing = IngIdle

GwModels == ModelsToTry(env_model, gw.model)

GwAttempt(outcome) == [model |-> GwModels[gw.i], mode |-> gw.mode, outcome |-> outcome]

\* lines 86-87: an empty model name is passed over
GwSkipBlank ==
    /\ gw.pc = "loop"
    /\ gw.i <= Len(GwModels)
    /\ GwModels[gw.i] = ""
    /\ gw' = [gw EXCEPT !.i = gw.i + 1]
    /\ UNCHANGED <<runVars, env_model, ctx, nz, ing>>

\* lines 89-97: the attempt in JSON mode raises, whatever the reason
GwJsonFails ==
    /\ gw.pc = "loop"
    /\ gw.i <= Len(GwModels)
    /\ GwModels[gw.i] # ""
    /\ gw.mode = "json"
    /\ \E kind \in FailureKinds :
          gw' = [gw EXCEPT !.mode = "plain", !.attempts = Append(gw.attempts, GwAttempt("failed"))]
    /\ UNCHANGED <<runVars, env_model, ctx, nz, ing>>

\* a mutant of AfterPlainFailure: the exception of the second attempt reaches the caller
RaiseAfterPlainFailure(g) == [g EXCEPT !.pc = "raised"]

\* lines 106-108: the next candidate
AfterPlainFailure(g) == [g EXCEPT !.i = g.i + 1, !.mode = "json"]

\* lines 98-103 and 106-108: the attempt without JSON mode raises
GwPlainFails ==
    /\ gw.pc = "loop"
    /\ gw.i <= Len(GwModels)
    /\ gw.mode = "plain"
    /\ \E kind \in FailureKinds :
          gw' = AfterPlainFailure([gw EXCEPT !.attempts = Append(gw.attempts, GwAttempt("failed"))])
    /\ UNCHANGED <<runVars, env_model, ctx, nz, ing>>

\* lines 104-105: an attempt succeeds; its content, or "[]", is returned
GwAnswers ==
    /\ gw.pc = "loop"
    /\ gw.i <= Len(GwModels)
    /\ GwModels[gw.i] # ""
    /\ \E o \in GatewayOutcomes(GwContents) \ {[kind |-> "exhausted", content |-> <<>>]} :
          gw' = [gw EXCEPT !.pc = "returned",
                           !.attempts = Append(gw.attempts, GwAttempt(o.kind)),
                           !.ret = ContentOf(o.kind, o.content)]
    /\ UNCHANGED <<runVars, env_model, ctx, nz, ing>>

\* lines 109-110: every candidate failed
GwExhausted ==
    /\ gw.pc = "loop"
    /\ gw.i > Len(GwModels)
    /\ gw' = [gw EXCEPT !.pc = "returned", !.ret = Brackets]
    /\ UNCHANGED <<runVars, env_model, ctx, nz, ing>>

GwNext == GwSkipBlank \/ GwJsonFails \/ GwPlainFails \/ GwAnswers \/ GwExhausted

SpecGateway == GwInit /\ [][GwNext]_vars

(***************************************************************************)
(* The normalisation of lines 303-323 applied to one record, and applied   *)
(* again to its own output                                                 *)
(***************************************************************************)
\* the keys of the record of lines 308-322, in order
IdeaFields ==
    <<"title", "description", "instrument", "metric_tag", "total_cost", "ce_vs_benchmark",
      "candidates", "sources", "botec", "reasoning", "doers", "doer_archetype", "debate">>

\* the values a model may put under a key: text, numbers, null, lists and objects
NzValues ==
    {PyStr("A"), PyStr(""), PyStr("DALY"), PyStr(" WALY "), PyStr("cases prevented"),
     PyNum("5"), PyNum("0"), PyNone,
     EmptyList, PyList(<<PyStr("x")>>), EmptyDict, PyDict(<< <<"x", PyStr("A")>> >>)}

\* the records a model may return: empty, one key (of the schema or not), several keys
NzIdeas ==
    {EmptyDict}
    \cup {PyDict(<< <<k, v>> >>) : k \in {IdeaFields[i] : i \in 1..Len(IdeaFields)} \cup {"foo"},
                                    v \in NzValues}
    \cup {PyDict(<< <<"foo", PyNum("5")>>, <<"metric_tag", PyStr("cases prevented")>>,
                    <<"title", PyStr("A")>>, <<"reasoning", PyDict(<< <<"x", PyStr("A")>> >>)>>,
                    <<"candidates", PyList(<<PyStr("x")>>)>> >>)}

NzInit ==
    /\ nz \in {[pc |-> "ready", idea |-> r, topics |-> tp, show_reasoning |-> sr,
                 once |-> EmptyDict, twice |-> EmptyDict] :
                   r \in NzIdeas, tp \in TopicsSet, sr \in BOOLEAN}
    /\ RunIdle
    /\ env_model = "unset"
    /\ ctx = CtxIdle
    /\ gw = GwIdle
    /\ ing = IngIdle

\* lines 303-323 on a record of the model
NzNormalize ==
    /\ nz.pc = "ready"
    /\ nz' = [nz EXCEPT !.pc = "once",
                        !.once = NormalizeIdea(nz.idea, nz.topics, nz.show_reasoning)]
    /\ UNCHANGED <<runVars, env_model, ctx, gw, ing>>

\* lines 303-323 on a record that is their own output
NzAgain ==
    /\ nz.pc = "once"
    /\ nz' = [nz EXCEPT !.pc = "twice",
                        !.twice = NormalizeIdea(nz.once, nz.topics, nz.show_reasoning)]
    /\ UNCHANGED <<runVars, env_model, ctx, gw, ing>>

NzNext == NzNormalize \/ NzAgain

SpecNormalize == NzInit /\ [][NzNext]_vars

(***************************************************************************)
(* ingest() of app.py lines 94-116 and the connectors it calls             *)
(***************************************************************************)
\* the first feeds of DEFAULT_RSS_SOURCES, in the order of the dict
Feeds == <<"Open Philanthropy", "Rethink Priorities">>

\* the keywords of the topics box: topics.split(",") without the blank parts
KeywordLists == {<<>>, <<"malaria">>, <<"malaria", "tb">>}

\* the items a fetch that succeeds brings back
ItemsPerFetch == 2

IngCall(conn, arg) == [conn |-> conn, arg |-> arg]

\* the connector calls of ingest(), in order; the searches are made for non-blank topics
IngPlan(kws) ==
    [f \in 1..Len(Feeds) |-> IngCall("rss", Feeds[f])]
    \o (IF kws # <<>>
        THEN <<IngCall("arXiv", "topics"), IngCall("biorxiv", "topics"), IngCall("medrxiv", "topics")>>
        ELSE <<>>)
    \o [k \in 1..Len(kws) |-> IngCall("WHO GHO", kws[k])]
    \o <<IngCall("GHDx GBD", "latest")>>
    \o [k \in 1..Len(kws) |-> IngCall("Crossref", kws[k])]

\* the source field of the documents of a call
SourceOf(call) == IF call.conn = "rss" THEN call.arg ELSE call.conn

\* the documents built from the items of a fetch
Items(call) == [n \in 1..ItemsPerFetch |-> [source |-> SourceOf(call), arg |-> call.arg, n |-> n]]

\* how a fetch may end: items, an exception, a timeout, an error status, or an
\* exception while the items are read
FetchFailures == {"exception", "timeout", "error_status"}
FetchKinds == {"ok", "item_error"} \cup FetchFailures

\* a mutant of ConnectorDocs: a failed fetch still hands back documents
ConnectorDocsStale(call, kind) == Items(call)

\* what a connector returns: docs as it stands when the try block is left
ConnectorDocs(call, kind) ==
    IF kind = "ok" THEN Items(call)
    ELSE IF kind = "item_error" THEN SubSeq(Items(call), 1, 1)
    ELSE <<>>

KindClass(kind) == IF kind \in FetchFailures THEN "failed" ELSE kind

GbdYears == <<"2021", "2019">>
GbdDoc(year) == [source |-> "GHDx GBD", arg |-> year, n |-> 1]

IngInit ==
    /\ ing \in {[pc |-> "running", keywords |-> kws, i |-> 1, docs |-> <<>>, log |-> <<>>] :
                   kws \in KeywordLists}
    /\ RunIdle
    /\ env_model = "unset"
    /\ ctx = CtxIdle
    /\ gw = GwIdle
    /\ nz = NzIdle

IngCurrent == IngPlan(ing.keywords)[ing.i]

IngLogged(call, class, year) == [call |-> call, class |-> class, year |-> year]

\* app.py lines 97-98 with rss_sources.py lines 44-59: one feed of the loop
IngRss ==
    /\ ing.pc = "running"
    /\ ing.i <= Len(IngPlan(ing.keywords))
    /\ IngCurrent.conn = "rss"
    /\ \E kind \in FetchKinds \ {"error_status"} :
          ing' = [ing EXCEPT !.i = ing.i + 1,
                             !.docs = ing.docs \o ConnectorDocs(IngCurrent, kind),
                             !.log = Append(ing.log, IngLogged(IngCurrent, KindClass(kind), ""))]
    /\ UNCHANGED <<runVars, env_model, ctx, gw, nz>>

\* app.py lines 100-109 and 113-115: arXiv, bioRxiv, medRxiv, WHO GHO and Crossref
IngSearch ==
    /\ ing.pc = "running"
    /\ ing.i <= Len(IngPlan(ing.keywords))
    /\ IngCurrent.conn \in {"arXiv", "biorxiv", "medrxiv", "WHO GHO", "Crossref"}
    /\ \E kind \in FetchKinds :
          /\ IngCurrent.conn = "arXiv" => kind # "error_status"
          /\ ing' = [ing EXCEPT !.i = ing.i + 1,
                                !.docs = ing.docs \o ConnectorDocs(IngCurrent, kind),
                                !.log = Append(ing.log, IngLogged(IngCurrent, KindClass(kind), ""))]
    /\ UNCHANGED <<runVars, env_model, ctx, gw, nz>>

\* app.py line 111 with ghdx.py lines 23-50: the first year whose download succeeds
IngGhdx ==
    /\ ing.pc = "running"
    /\ ing.i <= Len(IngPlan(ing.keywords))
    /\ IngCurrent.conn = "GHDx GBD"
    /\ \E k1, k2 \in {"ok"} \cup FetchFailures :
          LET year == IF k1 = "ok" THEN GbdYears[1] ELSE IF k2 = "ok" THEN GbdYears[2] ELSE ""
          IN ing' = [ing EXCEPT !.i = ing.i + 1,
                                !.docs = ing.docs \o (IF year = "" THEN <<>> ELSE <<GbdDoc(year)>>),
                                !.log = Append(ing.log,
                                               IngLogged(IngCurrent, IF year = "" THEN "failed" ELSE "ok", year))]
    /\ UNCHANGED <<runVars, env_model, ctx, gw, nz>>

\* app.py line 116
IngReturn ==
    /\ ing.pc = "running"
    /\ ing.i > Len(IngPlan(ing.keywords))
    /\ ing' = [ing EXCEPT !.pc = "done"]
    /\ UNCHANGED <<runVars, env_model, ctx, gw, nz>>

IngNext == IngRss \/ IngSearch \/ IngGhdx \/ IngReturn

SpecIngest == IngInit /\ [][IngNext]_vars

(***************************************************************************)
(* Properties of a run of synthesize_ideas                                 *)
(***************************************************************************)
Stages == [i \in 1..Len(calls) |-> calls[i].stage]
RescueIssued == \E i \in 1..Len(calls) : calls[i].stage = "rescue"
IsRecordList(v) == IsList(v) /\ \A i \in 1..Len(v.items) : IsDict(v.items[i])
TagOf(idea) == DictGet(idea, "metric_tag", PyNone).s

\* C1: with a credential configured, synthesize_ideas never raises, whatever the
\* model returns in the draft, rescue and refinement calls.
C1_NeverRaisesWithCredential == cred => pc # "raised"

\* C2: when the draft yields no ideas and the rescue yields at least one, the raw text
\* kept is the rescue output; the rescue output replaces the draft output only when the
\* rescue is the call that produced ideas.
C2_RawIsOutputOfProducer ==
    RescueIssued =>
        /\ (IsRecordList(ideas_list) /\ Truthy(ideas_list)) => raw = raw2
        /\ raw # calls[1].ret => Truthy(ideas_list)
        /\ pc = "done" => result.raw = raw

\* C3 as stated: every idea returned has a metric_tag among the five allowed ones,
\* for every topics string.
C3_MetricTagAlwaysAllowed ==
    pc = "done" => \A i \in 1..Len(result.ideas.items) : TagOf(result.ideas.items[i]) \in allowed_metrics

\* C3 amended: every idea returned has a metric_tag among the five allowed ones when the
\* topics match a health or an animal keyword; when they match neither, a tag outside
\* the set is the tag of the refined record, as text and stripped.
C3_MetricTagAllowedOrAsProduced ==
    pc = "done" =>
        \A i \in 1..Len(result.ideas.items) :
            \/ TagOf(result.ideas.items[i]) \in allowed_metrics
            \/ /\ ~IsGlobalHealth(topics)
               /\ ~IsAnimal(topics)
               /\ TagOf(result.ideas.items[i])
                    = StrOf(DictGet(refined.items[i], "metric_tag", PyStr("")))

\* C3 witness: a returned idea whose tag was outside the set and has been coerced
C3_Witness ==
    /\ pc = "done"
    /\ \E i \in 1..Len(result.ideas.items) :
          /\ StrOf(DictGet(refined.items[i], "metric_tag", PyStr(""))) \notin allowed_metrics
          /\ TagOf(result.ideas.items[i]) \in allowed_metrics

\* C6: parsing the draft yields a sequence of idea records, possibly empty, for any
\* text the model returns.
C6_DraftParseYieldsRecordList ==
    (pc \in {"rescuing", "refining"} /\ Len(calls) = 1) => IsRecordList(ideas_list)

\* C9: without a credential synthesize_ideas raises the precondition error before any
\* gateway call, and the handler reports the missing key without ingesting or calling;
\* this is not a zero-ideas result.
C9_NoCredentialNoCall ==
    ~cred =>
        /\ calls = <<>>
        /\ context = NoContext
        /\ pc \in {"idle", "called", "raised", "finished"}
        /\ result = NoResult
        /\ pc = "raised" => (err = "RuntimeError" /\ driver = "direct")
        /\ driver = "ui" =>
              (pc = "finished" /\ ui_msg = "Missing OPENAI_API_KEY" /\ documents = <<>>
               /\ session = EmptySession)

\* C9 witness: a direct call without credential has raised
C9_Witness == ~cred /\ pc = "raised" /\ err = "RuntimeError" /\ driver = "direct"

\* C10: the rescue call is issued exactly when parsing the draft yields no ideas, at
\* most once, and no draft or rescue call follows it.
C10_RescueIffDraftEmpty ==
    /\ Stages \in {<<>>, <<"draft">>, <<"draft", "rescue">>, <<"draft", "refine">>,
                   <<"draft", "rescue", "refine">>}
    /\ (calls # <<>> /\ pc \in {"refining", "normalizing", "done", "raised", "finished"}) =>
          (RescueIssued <=> ~Truthy(ParseDraft(calls[1].ret)))

\* C10 witness: a run that issued draft, rescue and refinement and returned
C10_Witness == pc = "done" /\ Stages = <<"draft", "rescue", "refine">>

LastCall == calls[Len(calls)]
AllExhausted == \A i \in 1..Len(calls) : calls[i].outcome = "exhausted"

\* a refinement text that gives no usable list: not JSON, an object without a list
\* under "ideas", or an empty list
RefineUnusable(text) ==
    LET r == JsonLoads(StripFence(text)) IN
    \/ ~r.ok
    \/ IsList(r.val) /\ r.val.items = <<>>
    \/ IsDict(r.val) /\ ~IsList(DictGet(r.val, "ideas", PyNone))
    \/ IsDict(r.val) /\ DictGet(r.val, "ideas", PyNone) = EmptyList
    \/ ~IsList(r.val) /\ ~IsDict(r.val)

\* C11: when the draft or the rescue gave a non-empty list of idea records and
\* num_ideas >= 1, a refinement that gives no usable list (unparseable text, wrongly
\* keyed object, empty list, every model unreachable) loses nothing: the run returns,
\* and the ideas returned are the first num_ideas draft ideas, normalised, at least one.
C11_RefinementFallsBackToDraft ==
    (/\ pc \in {"normalizing", "done", "raised"}
     /\ calls # <<>> /\ LastCall.stage = "refine"
     /\ num_ideas >= 1
     /\ IsRecordList(ideas_list) /\ Truthy(ideas_list)
     /\ RefineUnusable(LastCall.ret)) =>
        /\ pc # "raised"
        /\ pc = "done" =>
              /\ Len(result.ideas.items) = Min(num_ideas, Len(ideas_list.items))
              /\ Len(result.ideas.items) >= 1
              /\ \A i \in 1..Len(result.ideas.items) :
                    result.ideas.items[i] = NormalizeIdea(ideas_list.items[i], topics, show_reasoning)

\* C11 witness: the rescue gave ideas, every model was unreachable for the refinement,
\* and two ideas came back
C11_Witness ==
    /\ pc = "done"
    /\ Stages = <<"draft", "rescue", "refine">>
    /\ LastCall.outcome = "exhausted"
    /\ Len(result.ideas.items) = 2

\* C12: for num_ideas >= 0 the list given to the refinement call has at most num_ideas
\* ideas and the list returned has at most num_ideas ideas, also when the draft or the
\* refinement response holds more records than that.
C12_AtMostNumIdeas ==
    /\ \A i \in 1..Len(calls) :
          calls[i].stage = "refine" => Len(IterItems(calls[i].given)) <= num_ideas
    /\ pc = "done" => Len(result.ideas.items) <= num_ideas

\* C12 witness: the draft and the refinement both held more records than num_ideas
C12_Witness ==
    /\ pc = "done"
    /\ num_ideas >= 1
    /\ IsList(ideas_list) /\ Len(ideas_list.items) > num_ideas
    /\ LastCall.stage = "refine" /\ LastCall.ret = T_Ideas
    /\ Len(LastCall.given.items) = num_ideas
    /\ Len(result.ideas.items) = num_ideas

\* C20: when every candidate model fails in every gateway call of a run over N
\* documents, synthesize_ideas returns ideas = [], raw = "[]" and docs_count = N and
\* does not raise; docs_count is the length of the input whatever fits in the context.
C20_ExhaustionReturnsEmpty ==
    /\ (AllExhausted /\ pc = "raised") => (~cred /\ calls = <<>>)
    /\ (AllExhausted /\ pc \in {"parsing_draft", "rescuing", "refining", "normalizing"}) =>
          ENABLED (ParseDraftStep \/ RescueCall \/ RefineSkip \/ NormalizeStep)
    /\ (AllExhausted /\ pc = "done") =>
          /\ Stages = <<"draft", "rescue">>
          /\ result = [ideas |-> EmptyList, raw |-> Brackets, docs_count |-> Len(documents)]
    /\ pc = "done" => result.docs_count = Len(documents)

\* C20 witness: every call was exhausted over more documents than the context holds
C20_Witness ==
    /\ pc = "done"
    /\ AllExhausted
    /\ Len(documents) = ManyDocs
    /\ Len(context.parts) < Len(documents)
    /\ result.docs_count = ManyDocs

\* the draft has been parsed and nothing else has happened to ideas_list
DraftParsed == pc \in {"rescuing", "refining"} /\ Len(calls) = 1
\* the first index of 1..n that satisfies P, 0 when there is none
FirstWhere(n, P(_)) ==
    IF \E i \in 1..n : P(i) THEN CHOOSE i \in 1..n : P(i) /\ \A j \in 1..(i - 1) : ~P(j) ELSE 0
\* the list under the first alternate key, in the fixed order, that holds a list
FirstAltList(obj) ==
    LET a == FirstWhere(Len(AltKeys), LAMBDA i : IsList(DictGet(obj, AltKeys[i], PyNone))) IN
    IF a = 0 THEN PyNone ELSE DictGet(obj, AltKeys[a], PyNone)
\* the value of the first top-level key, in key order, that satisfies P
FirstValue(obj, P(_)) ==
    LET k == FirstWhere(Len(obj.kv), LAMBDA i : P(obj.kv[i][2])) IN
    IF k = 0 THEN EmptyList ELSE obj.kv[k][2]
StartsWithRecord(v) == IsList(v) /\ (v.items = <<>> \/ IsDict(v.items[1]))

\* C16 as stated: from a JSON object the idea list is the value under "ideas" if it
\* holds ideas, otherwise the list under the first alternate key present, otherwise the
\* value of the first top-level key whose value is a sequence.
C16_ResolutionOrder ==
    (DraftParsed /\ IsDict(DraftObj(raw))) =>
        LET obj == DraftObj(raw) IN
        ideas_list = IF Truthy(DictGet(obj, "ideas", EmptyList)) THEN DictGet(obj, "ideas", EmptyList)
                     ELSE IF FirstAltList(obj) # PyNone THEN FirstAltList(obj)
                     ELSE FirstValue(obj, IsList)

\* C16 amended: the value under "ideas" when it is non-empty, list or not; otherwise the
\* list under the first alternate key that holds a list, when that list is non-empty;
\* otherwise the value of the first top-level key, in key order, whose value is an empty
\* list or a list that starts with a record, and the empty list when there is none.
C16_ResolutionOrderGuarded ==
    (DraftParsed /\ IsDict(DraftObj(raw))) =>
        LET obj == DraftObj(raw) IN
        ideas_list = IF Truthy(DictGet(obj, "ideas", EmptyList)) THEN DictGet(obj, "ideas", EmptyList)
                     ELSE IF FirstAltList(obj) # PyNone /\ FirstAltList(obj).items # <<>>
                          THEN FirstAltList(obj)
                     ELSE FirstValue(obj, StartsWithRecord)

\* C16 witness: the first list-valued key holds numbers and the list of records of a
\* later key was taken
C16_Witness ==
    /\ DraftParsed
    /\ IsDict(DraftObj(raw))
    /\ ~HasKey(DraftObj(raw), "ideas")
    /\ FirstAltList(DraftObj(raw)) = PyNone
    /\ ideas_list # FirstValue(DraftObj(raw), IsList)
    /\ Truthy(ideas_list) /\ IsRecordList(ideas_list)

\* C21: the rescue response and the refinement response are parsed as the draft
\* response is: the idea list taken from a text is the same whichever of the three
\* stages received it (fence stripping, direct parse, array and object extraction,
\* canonical key, alternate keys, first list-valued key).
C21_SameParserInEveryStage ==
    /\ (RescueIssued /\ pc = "refining") => ideas_list = ParseDraft(raw2)
    /\ (pc = "normalizing" /\ calls # <<>> /\ LastCall.stage = "refine") =>
          refined = FallBack(ParseDraft(LastCall.ret), ideas_list, num_ideas)

\* C22: a run of synthesize_ideas makes at most three gateway calls, in the order
\* draft, rescue (if any), refinement (if any), and finishes with the normalisation;
\* the draft call is always made, and the refinement call is made exactly when the
\* ideas given to the refinement (draft or rescue ideas cut to num_ideas) are not empty.
C22_CallOrderAndCompletion ==
    cred =>
        /\ Stages \in {<<>>, <<"draft">>, <<"draft", "rescue">>, <<"draft", "refine">>,
                       <<"draft", "rescue", "refine">>}
        /\ pc \notin {"idle", "called", "drafting"} => (calls # <<>> /\ calls[1].stage = "draft")
        /\ pc \in {"normalizing", "done"} =>
              (LastCall.stage = "refine" <=> Truthy(Slice(ideas_list, num_ideas).val))
        /\ \A i \in 1..Len(calls) : calls[i].stage = "refine" => Truthy(calls[i].given)
        /\ pc # "raised"

(***************************************************************************)
(* Properties of the page over several runs                                *)
(***************************************************************************)
\* the handler has caught an exception of the run and is done with it
FailureHandled == pc = "raised" /\ driver = "ui" /\ pc' = "finished"

\* C13 as stated: when a run raises, the failure is caught and reported and the stored
\* result (ideas, debug raw, docs count) is left as it was; it changes only when a
\* later run completes.
C13_FailureKeepsSession ==
    [][/\ FailureHandled => (ui_msg' = "Generation failed" /\ session' = session)
       /\ session' # session => (pc = "done" /\ pc' = "finished")]_vars

\* C13 amended: when a run raises, the failure is caught and reported and the stored
\* result is reset (no ideas, empty debug raw, docs count 0); the stored result changes
\* only at the end of a run, to the result of a run that completed or to the reset.
C13_FailureResetsSession ==
    [][/\ FailureHandled => (ui_msg' = "Generation failed" /\ session' = EmptySession)
       /\ session' # session => (pc \in {"done", "raised"} /\ driver = "ui" /\ pc' = "finished")
       /\ (pc = "done" /\ pc' = "finished") =>
             session' = [ideas |-> result.ideas, debug_raw |-> result.raw,
                         debug_docs_count |-> result.docs_count]]_vars

\* C13 witness: a run has raised on a page that shows the ideas of an earlier run
C13_Witness ==
    /\ pc = "raised"
    /\ driver = "ui"
    /\ session.ideas.items # <<>>
    /\ session.debug_docs_count > 0

(***************************************************************************)
(* Properties of _build_context                                            *)
(***************************************************************************)
CtxParts == ctx.out.parts
CtxFirst == SubSeq(Ordered(ctx.documents), 1, Min(MaxContextDocs, Len(ctx.documents)))
InPrioritySet(doc) == SourceStrip(doc.source) \in PRIORITY_SOURCES
\* document a comes before document b in the priority-first, otherwise original, order
ComesBefore(a, b) ==
    \/ InPrioritySet(ctx.documents[a]) /\ ~InPrioritySet(ctx.documents[b])
    \/ (InPrioritySet(ctx.documents[a]) <=> InPrioritySet(ctx.documents[b])) /\ a < b

\* C4 as stated: the returned string, separators included, is never longer than max_chars.
C4_LengthWithinCap == ctx.pc = "built" => ctx.out.len <= ctx.max_chars

\* C4 amended: blocks are included whole, their lengths add up to at most max_chars and
\* accumulation stops before the first block that would take that sum past the cap; the
\* returned string has one separator character between consecutive blocks on top of that
\* sum, so it is at most max_chars plus the number of blocks minus one long.
C4_BlocksWithinCap ==
    ctx.pc = "built" =>
        /\ \A i \in 1..Len(CtxParts) : CtxParts[i].len = BlockLen(ctx.documents[CtxParts[i].doc])
        /\ SumLen(CtxParts) <= ctx.max_chars
        /\ ctx.out.len = SumLen(CtxParts) + (IF CtxParts = <<>> THEN 0 ELSE Len(CtxParts) - 1)
        /\ Len(CtxParts) < Len(CtxFirst) =>
              SumLen(CtxParts) + BlockLen(ctx.documents[CtxFirst[Len(CtxParts) + 1]]) > ctx.max_chars

\* C4 witness: a context cut at a block boundary whose separators take it past the cap
C4_Witness ==
    /\ ctx.pc = "built"
    /\ Len(CtxParts) >= 2
    /\ Len(CtxParts) < Len(ctx.documents)
    /\ ctx.out.len > ctx.max_chars

GwNonBlank == SelectSeq(GwModels, LAMBDA m : m # "")
GwLast == gw.attempts[Len(gw.attempts)]
GwAllFailed == \A k \in 1..Len(gw.attempts) : gw.attempts[k].outcome = "failed"

\* C7: _call_llm never raises because of a failing model: every failure moves on, in
\* mode and then in candidate, in the order of the list, and when every candidate has
\* failed the call returns the text "[]".
C7_FailuresAbsorbed ==
    /\ gw.pc \in {"idle", "loop", "returned"}
    /\ \A k \in 1..Len(gw.attempts) :
          /\ gw.attempts[k].model = GwNonBlank[(k + 1) \div 2]
          /\ gw.attempts[k].mode = IF k % 2 = 1 THEN "json" ELSE "plain"
          /\ k < Len(gw.attempts) => gw.attempts[k].outcome = "failed"
    /\ (gw.pc = "returned" /\ GwAllFailed) =>
          (gw.ret = Brackets /\ Len(gw.attempts) = 2 * Len(GwNonBlank))
    /\ gw.pc = "loop" => ENABLED GwNext

\* C7 witness: every candidate failed in both modes and "[]" came back
C7_Witness ==
    /\ gw.pc = "returned"
    /\ GwAllFailed
    /\ Len(gw.attempts) = 2 * Len(FallbackChain) + 2
    /\ gw.ret = Brackets

\* C8: a candidate that answers with empty content does not end the iteration: the call
\* returns either the non-empty content of a candidate or, all candidates tried, "[]".
C8_EmptyContentTriesNext ==
    gw.pc = "returned" =>
        \/ GwAllFailed /\ Len(gw.attempts) = 2 * Len(GwNonBlank)
        \/ gw.attempts # <<>> /\ GwLast.outcome = "content" /\ gw.ret # <<>> /\ gw.ret \in GwContents

\* C17: the first model attempted is the preferred model of the call: the model of the
\* environment when one is set, otherwise the model the caller selected from the
\* deep_research flag; the fallback chain comes after it.
C17_FirstAttemptIsPreferred ==
    gw.attempts # <<>> =>
        /\ gw.model = DefaultModel(env_model, gw.deep_research)
        /\ gw.attempts[1].model = gw.model

\* C18: for each candidate the attempt in JSON mode comes first and the plain attempt
\* only after it failed, and a model that failed in both modes is not attempted again
\* in the same call, with OPENAI_MODEL unset or set to a model of the fallback chain.
C18_NoModelRetried ==
    (env_model = "unset" \/ \E i \in 1..Len(FallbackChain) : env_model = FallbackChain[i]) =>
        \A j, k \in 1..Len(gw.attempts) :
            (j < k /\ gw.attempts[j].model = gw.attempts[k].model) =>
                /\ k = j + 1
                /\ gw.attempts[j].mode = "json" /\ gw.attempts[j].outcome = "failed"
                /\ gw.attempts[k].mode = "plain"

(***************************************************************************)
(* Properties of the normalisation                                         *)
(***************************************************************************)
TextFields == {"title", "description", "instrument", "total_cost", "ce_vs_benchmark", "doer_archetype"}
ListFields == {"candidates", "sources", "doers"}
MapFields == {"botec", "reasoning", "debate"}
\* the default the schema documents for a field
SchemaDefault(k) ==
    IF k \in ListFields THEN EmptyList ELSE IF k \in MapFields THEN EmptyDict ELSE PyStr("")
\* the field is in the record with a value of the type of the schema
WellTyped(idea, k) ==
    /\ HasKey(idea, k)
    /\ DictGet(idea, k, PyNone).t = SchemaDefault(k).t

\* C14: normalisation is idempotent: for fixed topics and show_reasoning, normalising a
\* record that is the output of normalisation gives the same record, keys and values.
C14_NormalizeIdempotent == nz.pc = "twice" => nz.twice = nz.once

\* C14 witness: a record whose tag was coerced and whose missing fields were filled has
\* been normalised twice
C14_Witness ==
    /\ nz.pc = "twice"
    /\ nz.idea # nz.once
    /\ DictGet(nz.idea, "metric_tag", PyNone) = PyStr("cases prevented")
    /\ DictGet(nz.once, "metric_tag", PyNone) = PyStr("WALY")
    /\ HasKey(nz.idea, "foo")

\* C15: a returned idea has exactly the fields of the schema, and a field that the
\* record of the model lacks, or holds with the wrong type, has the documented default:
\* "" for text fields, title included, [] for candidates, sources and doers, {} for
\* botec, reasoning and debate.
C15_SchemaDefaults ==
    nz.pc = "once" =>
        /\ [i \in 1..Len(nz.once.kv) |-> nz.once.kv[i][1]] = IdeaFields
        /\ \A k \in TextFields \cup ListFields \cup MapFields :
              ~WellTyped(nz.idea, k) => DictGet(nz.once, k, PyNone) = SchemaDefault(k)

(***************************************************************************)
(* Properties of ingest()                                                  *)
(***************************************************************************)
\* what a logged call is said to contribute: everything it fetched when it succeeded,
\* nothing when its fetch failed, what was read before the exception otherwise
Contribution(entry) ==
    IF entry.class = "failed" THEN <<>>
    ELSE IF entry.call.conn = "GHDx GBD" THEN <<[source |-> "GHDx GBD", arg |-> entry.year, n |-> 1]>>
    ELSE [n \in 1..(IF entry.class = "ok" THEN ItemsPerFetch ELSE 1) |->
              [source |-> SourceOf(entry.call), arg |-> entry.call.arg, n |-> n]]

RECURSIVE Concatenated(_)
Concatenated(log) ==
    IF log = <<>> THEN <<>>
    ELSE Concatenated(SubSeq(log, 1, Len(log) - 1)) \o Contribution(log[Len(log)])

NzSupplied == DictGet(nz.idea, "metric_tag", PyStr(""))
NzTag == DictGet(nz.once, "metric_tag", PyNone)
\* what the topics make of a tag that is not taken as it is
Coerced(tp, otherwise) ==
    IF IsGlobalHealth(tp) THEN PyStr("DALY") ELSE IF IsAnimal(tp) THEN PyStr("WALY") ELSE otherwise

\* C23 as stated: the tag of the normalised record is a function of the tag the model
\* supplied and of the topics: a supplied tag in the allowed set is returned unchanged;
\* one outside the set becomes DALY for health topics (also when animal topics match),
\* otherwise WALY for animal topics, otherwise it stays as supplied.
C23_TagOfSuppliedTag ==
    nz.pc = "once" =>
        NzTag = IF NzSupplied.t = "str" /\ NzSupplied.s \in allowed_metrics
                THEN NzSupplied
                ELSE Coerced(nz.topics, NzSupplied)

\* C23 amended: the same function, applied to the supplied tag converted to text and
\* stripped of surrounding blanks (the empty text when the record has no tag): that text
\* is returned when it is in the allowed set, whatever the topics; otherwise DALY for
\* health topics (also when animal topics match), otherwise WALY for animal topics,
\* otherwise that text.
C23_TagOfStrippedText ==
    nz.pc = "once" =>
        NzTag = IF StrOf(NzSupplied) \in allowed_metrics
                THEN PyStr(StrOf(NzSupplied))
                ELSE Coerced(nz.topics, PyStr(StrOf(NzSupplied)))

\* C23 witness: topics "broiler welfare" (animal, not health) and the tag
\* "cases prevented" have given WALY
C23_Witness ==
    /\ nz.pc = "once"
    /\ IsAnimal(nz.topics) /\ ~IsGlobalHealth(nz.topics)
    /\ NzSupplied = PyStr("cases prevented")
    /\ NzTag = PyStr("WALY")

====
